---- MODULE Spec2Model ----
(***************************************************************************)
(* A model of server.py: five FastMCP tools that wrap yfinance.  Each tool *)
(* builds a yf.Ticker, reads one attribute of it, reshapes what it got and *)
(* returns a string; a blanket `except Exception` turns a raise into an    *)
(* "Error: ..." string.                                                    *)
(*                                                                         *)
(* Strings are sequences of tokens: a literal of the source is one token,  *)
(* a symbol or a business summary is one token per character.  Python      *)
(* values are records [t, n, s] (type tag, number, text), dicts are        *)
(* functions from keys to values, DataFrames are records of an index and   *)
(* rows.  The provider (yfinance, pandas) is the environment: what it      *)
(* returns or raises is chosen nondeterministically per call.              *)
(***************************************************************************)
EXTENDS Integers, Sequences, FiniteSets, TLC

\* ------------------------------------------------------------- bounds
MaxSymLen == 2      \* longest ticker symbol, in characters
MaxRows == 21       \* most rows of a provider table
MaxNews == 6        \* most items of a provider news list
MaxSummaryLen == 501 \* longest business summary, in characters
MaxInv == 2         \* concurrent invocations

\* -------------------------------------------------- program constants
SummaryChars == 500     \* [:500]
HistTail == 20          \* hist.tail(20)
NewsHead == 5           \* news[:5]
StmtHead == 10          \* data.head(10)
RecsTail == 10          \* recs.tail(10)

\* ------------------------------------------------------ Python values
None == [t |-> "None", n |-> 0, s |-> <<>>]
Str(s) == [t |-> "str", n |-> 0, s |-> s]
Num(n) == [t |-> "num", n |-> n, s |-> <<>>]
Timestamp(d) == [t |-> "Timestamp", n |-> d, s |-> <<>>]

Min(a, b) == IF a < b THEN a ELSE b
Max(a, b) == IF a > b THEN a ELSE b

\* bool(v): None, 0 and "" are falsy
Truthy(v) ==
  ~(v.t = "None" \/ (v.t = "num" /\ v.n = 0) \/ (v.t = "str" /\ v.s = <<>>))

\* a or b
PyOr(a, b) == IF Truthy(a) THEN a ELSE b

\* d.get(k, default)
DictGet(d, k, default) == IF k \in DOMAIN d THEN d[k] ELSE default

\* seq[:k]
Head_(seq, k) == SubSeq(seq, 1, Min(k, Len(seq)))

\* seq[-k:]  (DataFrame.tail(k), k > 0)
Tail_(seq, k) == SubSeq(seq, Max(1, Len(seq) - k + 1), Len(seq))

\* str.upper(), one character
UpperChar(c) == CASE c = "a" -> "A" [] c = "b" -> "B" [] OTHER -> c

\* str.upper()
Upper(sym) == [i \in 1..Len(sym) |-> UpperChar(sym[i])]

\* ---------------------------------------- outcomes of a step of a call
Ok(v) == [raised |-> FALSE, msg |-> <<>>, val |-> v]
Raise(m) == [raised |-> TRUE, msg |-> m, val |-> None]

\* what a tool hands back across the tool boundary
ReturnStr(text) == [kind |-> "str", text |-> text, json |-> <<>>]
ReturnJson(j) == [kind |-> "json", text |-> <<>>, json |-> j]
Fault(m) == [kind |-> "fault", text |-> m, json |-> <<>>]

\* the body of a try block evaluated to a return value or a raise
Returned(r) == [raised |-> FALSE, msg |-> <<>>, ret |-> r]
Raised(m) == [raised |-> TRUE, msg |-> m, ret |-> Fault(m)]

\* a handler whose except clause is missing: the raise crosses the boundary
CatchNothing(body) == body.ret

\* try: ... except Exception as e: return f"Error: {str(e)}"
Catch(body) ==
  IF body.raised THEN ReturnStr(<<"Error: ">> \o body.msg) ELSE body.ret

\* ------------------------------------------------- the provider's side
\* a pandas DataFrame: the index (its name, "" when it has none, and its
\* labels) and the rows, each a dict from column name to value
DataFrame(iname, idx, rows) ==
  [t |-> "DataFrame", iname |-> iname, idx |-> idx, rows |-> rows]
EmptyFrame == DataFrame("", <<>>, <<>>)

\* a Python list
List(items) == [t |-> "list", items |-> items]

\* what a yf.Ticker does for one call: whether the constructor raises, what
\* each attribute the tools read returns or raises, and whether serialising
\* the reshaped value (json.dumps, DataFrame.to_json) raises
DefaultTicker ==
  [ctor |-> Ok(None), info |-> Ok(<<>>), history |-> Ok(EmptyFrame),
   news |-> Ok(List(<<>>)), financials |-> Ok(EmptyFrame),
   balance_sheet |-> Ok(EmptyFrame), cashflow |-> Ok(EmptyFrame),
   recommendations |-> Ok(None), dumps |-> Ok(None)]

ProviderErrors == {<<"HTTPError 404">>, <<"Connection refused">>}

\* the ways a call can fail on the provider's side, for a tool reading `attr`
FailingTickers(attr) ==
  {[DefaultTicker EXCEPT !.ctor = Raise(m)] : m \in ProviderErrors}
  \cup {[DefaultTicker EXCEPT ![attr] = Raise(m)] : m \in ProviderErrors}

\* ticker symbols the caller may pass
SymChars == {"a", "A"}
Symbols == UNION {[1..k -> SymChars] : k \in 1..MaxSymLen}

\* ------------------------------------------------------ get_stock_info
PlainInfoKeys ==
  {"longName", "currency", "marketCap", "trailingPE", "fiftyTwoWeekHigh",
   "fiftyTwoWeekLow", "volume", "averageVolume", "dividendYield", "sector",
   "industry"}
InfoKeys ==
  PlainInfoKeys \cup {"currentPrice", "regularMarketPrice", "longBusinessSummary"}

\* a sample value of each plain field of ticker.info
SampleInfo(k) ==
  CASE k = "longName" -> Str(<<"Apple Inc.">>)
    [] k = "currency" -> Str(<<"USD">>)
    [] k = "sector" -> Str(<<"Technology">>)
    [] k = "industry" -> Str(<<"Consumer Electronics">>)
    [] OTHER -> Num(3)

\* which plain fields the provider leaves out (first) or sets to None (second)
OmitPatterns ==
  {<<{}, {}>>, <<PlainInfoKeys, {}>>, <<{}, PlainInfoKeys>>}
  \cup {<<{k}, {}>> : k \in PlainInfoKeys}
  \cup {<<{}, {k}>> : k \in PlainInfoKeys}

Absent == [t |-> "absent", n |-> 0, s |-> <<>>]
PriceChoices == {Absent, None, Num(0), Num(5)}
MarketPriceChoices == {Absent, None, Num(7)}
SummaryLens == {0, 1, SummaryChars, MaxSummaryLen}
SummaryChoices ==
  {Absent, None} \cup {Str([i \in 1..k |-> "x"]) : k \in SummaryLens}

\* the info mapping with the given omissions, prices and summary
MkInfo(omit, cp, rmp, summ) ==
  LET v(k) == CASE k = "currentPrice" -> cp
                [] k = "regularMarketPrice" -> rmp
                [] k = "longBusinessSummary" -> summ
                [] k \in omit[2] -> None
                [] OTHER -> SampleInfo(k)
      keys == {k \in InfoKeys : v(k) # Absent /\ k \notin omit[1]}
  IN [k \in keys |-> v(k)]

Infos ==
  {MkInfo(o, cp, rmp, su) : o \in OmitPatterns, cp \in PriceChoices,
                            rmp \in MarketPriceChoices, su \in SummaryChoices}

InfoTickers ==
  {[DefaultTicker EXCEPT !.info = Ok(i)] : i \in Infos}
  \cup {[DefaultTicker EXCEPT !.info = Ok(MkInfo(<<{}, {}>>, Num(5), Num(7), Str(<<"x">>))),
                              !.dumps = Raise(m)] : m \in ProviderErrors}
  \cup FailingTickers("info")

StockInfoKeys ==
  {"symbol", "name", "price", "currency", "marketCap", "peRatio", "52WeekHigh",
   "52WeekLow", "volume", "avgVolume", "dividendYield", "sector", "industry",
   "summary"}

\* the provider key an output key is read from
InfoKeyOf(k) ==
  CASE k = "name" -> "longName"
    [] k = "peRatio" -> "trailingPE"
    [] k = "52WeekHigh" -> "fiftyTwoWeekHigh"
    [] k = "52WeekLow" -> "fiftyTwoWeekLow"
    [] k = "avgVolume" -> "averageVolume"
    [] k = "summary" -> "longBusinessSummary"
    [] OTHER -> k

\* the dict handed to json.dumps
StockInfoDict(symbol, info) ==
  [k \in StockInfoKeys |->
     CASE k = "symbol" -> Str(Upper(symbol))
       [] k = "price" -> PyOr(DictGet(info, "currentPrice", None),
                              DictGet(info, "regularMarketPrice", None))
       [] k = "summary" ->
            Str(Head_(DictGet(info, "longBusinessSummary", Str(<<>>)).s, SummaryChars))
       [] OTHER -> DictGet(info, InfoKeyOf(k), None)]

\* the try block of get_stock_info
StockInfoBody(symbol, tk) ==
  IF tk.ctor.raised THEN Raised(tk.ctor.msg)
  ELSE IF tk.info.raised THEN Raised(tk.info.msg)
  ELSE IF DictGet(tk.info.val, "longBusinessSummary", Str(<<>>)).t # "str"
  THEN Raised(<<"'NoneType' object is not subscriptable">>)
  ELSE IF tk.dumps.raised THEN Raised(tk.dumps.msg)
  ELSE Returned(ReturnJson(StockInfoDict(symbol, tk.info.val)))

get_stock_info(symbol, tk) == Catch(StockInfoBody(symbol, tk))

\* --------------------------------------------------------------- pandas
\* str(Timestamp) for day d of the month
IsoDates ==
  <<"2024-01-01", "2024-01-02", "2024-01-03", "2024-01-04", "2024-01-05",
    "2024-01-06", "2024-01-07", "2024-01-08", "2024-01-09", "2024-01-10",
    "2024-01-11", "2024-01-12", "2024-01-13", "2024-01-14", "2024-01-15",
    "2024-01-16", "2024-01-17", "2024-01-18", "2024-01-19", "2024-01-20",
    "2024-01-21", "2024-01-22", "2024-01-23", "2024-01-24", "2024-01-25",
    "2024-01-26", "2024-01-27", "2024-01-28", "2024-01-29", "2024-01-30",
    "2024-01-31">>

\* Series.astype(str), one element
AsStr(v) ==
  CASE v.t = "str" -> v
    [] v.t = "Timestamp" -> Str(<<IsoDates[v.n]>>)
    [] v.t = "num" -> Str(<<ToString(v.n)>>)
    [] OTHER -> Str(<<"None">>)

\* a value as to_json writes it: a Timestamp left in the table becomes an ISO
\* string under date_format="iso" and epoch milliseconds otherwise
JsonValue(v, date_format) ==
  IF v.t = "Timestamp"
  THEN IF date_format = "iso" THEN Str(<<IsoDates[v.n], "T00:00:00.000">>)
       ELSE Num(v.n * 86400000)
  ELSE v

\* df.columns of a frame with rows
Columns(df) == DOMAIN df.rows[1]

\* df.empty
IsEmpty(df) == Len(df.rows) = 0

\* the column reset_index() puts the index in
IndexColumn(df) ==
  IF df.iname # "" THEN df.iname
  ELSE IF "index" \in Columns(df) THEN "level_0" ELSE "index"

\* df.reset_index(): the index becomes a column, a RangeIndex replaces it
ResetIndex(df) ==
  LET name == IndexColumn(df)
  IN IF name \in Columns(df)
     THEN Raise(<<"cannot insert ", name, ", already exists">>)
     ELSE Ok(DataFrame("", [i \in 1..Len(df.rows) |-> Num(i - 1)],
                       [i \in 1..Len(df.rows) |->
                          [c \in Columns(df) \cup {name} |->
                             IF c = name THEN df.idx[i] ELSE df.rows[i][c]]]))

\* df[col] = df[col].astype(str)
StringifyColumn(df, col) ==
  [df EXCEPT !.rows = [i \in 1..Len(df.rows) |->
     [c \in Columns(df) \cup {col} |->
        IF c = col THEN AsStr(df.rows[i][col]) ELSE df.rows[i][c]]]]

\* df[col] = value
SetColumn(df, col, value) ==
  [df EXCEPT !.rows = [i \in 1..Len(df.rows) |->
     [c \in Columns(df) \cup {col} |->
        IF c = col THEN value ELSE df.rows[i][c]]]]

\* df.to_json(orient="records")
ToJsonRecords(rows, date_format) ==
  [i \in 1..Len(rows) |->
     [c \in DOMAIN rows[i] |-> JsonValue(rows[i][c], date_format)]]

\* ----------------------------------------------- get_historical_prices
Periods ==
  {"1d", "5d", "1mo", "3mo", "6mo", "1y", "2y", "5y", "10y", "ytd", "max"}
Intervals == {"1m", "5m", "15m", "30m", "60m", "1d", "1wk", "1mo"}

\* the period/interval pairs tried: every period, and every interval
PeriodIntervals ==
  {<<p, "1d">> : p \in Periods} \cup {<<"1mo", i>> : i \in Intervals}

\* the name yfinance gives the index of a price table: "Datetime" for the
\* intraday intervals, "Date" from one day up
IntradayIntervals == {"1m", "5m", "15m", "30m", "60m"}
HistIndexName(interval) ==
  IF interval \in IntradayIntervals THEN "Datetime" ELSE "Date"

\* a price table of n bars in chronological order, bar i closing at i; with
\* ties, two bars share each timestamp
MkHist(iname, n, ties) ==
  DataFrame(iname,
            [i \in 1..n |-> Timestamp(IF ties THEN (i + 1) \div 2 ELSE i)],
            [i \in 1..n |-> [Close |-> Num(i)]])

HistFrames(interval) ==
  {MkHist(HistIndexName(interval), n, ties) : n \in 0..MaxRows, ties \in BOOLEAN}

HistTickers(interval) ==
  {[DefaultTicker EXCEPT !.history = Ok(h)] : h \in HistFrames(interval)}
  \cup {[DefaultTicker EXCEPT !.history = Ok(MkHist(HistIndexName(interval), 1, FALSE)),
                              !.dumps = Raise(m)] : m \in ProviderErrors}
  \cup FailingTickers("history")

\* a faulty hist.tail(20): head(20), the first rows instead of the last
HistTailHead(rows) == Head_(rows, HistTail)

\* hist.tail(20)
HistTailRows(rows) == Tail_(rows, HistTail)

\* the try block of get_historical_prices
HistoricalPricesBody(symbol, period, interval, tk) ==
  IF tk.ctor.raised THEN Raised(tk.ctor.msg)
  ELSE IF tk.history.raised THEN Raised(tk.history.msg)
  ELSE IF IsEmpty(tk.history.val)
  THEN Returned(ReturnStr(<<"No data found for ">> \o symbol))
  ELSE LET hist == ResetIndex(tk.history.val)
       IN IF hist.raised THEN Raised(hist.msg)
          ELSE IF "Date" \notin Columns(hist.val) THEN Raised(<<"'Date'">>)
          ELSE IF tk.dumps.raised THEN Raised(tk.dumps.msg)
          ELSE Returned(ReturnJson(ToJsonRecords(
                 HistTailRows(StringifyColumn(hist.val, "Date").rows), "iso")))

get_historical_prices(symbol, period, interval, tk) ==
  Catch(HistoricalPricesBody(symbol, period, interval, tk))

\* ------------------------------------------------- get_recommendations
\* the recommendations tables the provider has returned over its versions:
\* "trend": a RangeIndex and period/strongBuy columns; "history": indexed by
\* Date with Firm/Action columns; "dated": a RangeIndex and a Date column
RecsShapes == {"trend", "history", "dated"}

MkRecs(shape, n) ==
  CASE shape = "trend" ->
         DataFrame("", [i \in 1..n |-> Num(i - 1)],
                   [i \in 1..n |-> [period |-> Str(<<"-", ToString(i), "m">>),
                                    strongBuy |-> Num(i)]])
    [] shape = "history" ->
         DataFrame("Date", [i \in 1..n |-> Timestamp(i)],
                   [i \in 1..n |-> [Firm |-> Str(<<"Firm ", ToString(i)>>),
                                    Action |-> Str(<<"up">>)]])
    [] OTHER ->
         DataFrame("", [i \in 1..n |-> Num(i - 1)],
                   [i \in 1..n |-> [Date |-> Timestamp(i), strongBuy |-> Num(i)]])

RecsFrames == {MkRecs(sh, n) : sh \in RecsShapes, n \in 0..MaxRows}

RecsTickers ==
  {[DefaultTicker EXCEPT !.recommendations = Ok(r)] : r \in RecsFrames \cup {None}}
  \cup {[DefaultTicker EXCEPT !.recommendations = Ok(MkRecs("trend", 1)),
                              !.dumps = Raise(m)] : m \in ProviderErrors}
  \cup FailingTickers("recommendations")

\* a faulty recs.tail(10): no truncation
RecsTailAll(rows) == rows

\* recs.tail(10)
RecsTailRows(rows) == Tail_(rows, RecsTail)

\* recs['Date'] = recs['Date'].astype(str) if 'Date' in recs.columns else ""
RecsDate(recs) ==
  IF "Date" \in Columns(recs) THEN StringifyColumn(recs, "Date")
  ELSE SetColumn(recs, "Date", Str(<<>>))

\* the try block of get_recommendations
RecommendationsBody(symbol, tk) ==
  IF tk.ctor.raised THEN Raised(tk.ctor.msg)
  ELSE IF tk.recommendations.raised THEN Raised(tk.recommendations.msg)
  ELSE IF tk.recommendations.val = None \/ IsEmpty(tk.recommendations.val)
  THEN Returned(ReturnStr(<<"No recommendations for ">> \o symbol))
  ELSE LET recs == ResetIndex(tk.recommendations.val)
       IN IF recs.raised THEN Raised(recs.msg)
          ELSE IF tk.dumps.raised THEN Raised(tk.dumps.msg)
          ELSE Returned(ReturnJson(ToJsonRecords(
                 RecsTailRows(RecsDate(recs.val).rows), "epoch")))

get_recommendations(symbol, tk) == Catch(RecommendationsBody(symbol, tk))

\* ------------------------------------------------------ get_stock_news
\* what a field of a news item may hold
FieldChoices(text) == {Absent, None, Str(<<text>>)}

\* a dict holding key k unless v is Absent
Field(k, v) == IF v = Absent THEN <<>> ELSE [x \in {k} |-> v]

\* the union of two dicts with different keys
Merge(d, e) == [k \in DOMAIN d \cup DOMAIN e |-> IF k \in DOMAIN d THEN d[k] ELSE e[k]]

\* what item["content"]["provider"] and item["content"]["canonicalUrl"] may hold
NestedChoices(k, text) ==
  {Absent, None} \cup {Field(k, v) : v \in FieldChoices(text)}

\* the modern shape: title, provider.displayName, canonicalUrl.url
Contents ==
  {Merge(Field("title", t), Merge(Field("provider", p), Field("canonicalUrl", u))) :
     t \in FieldChoices("Modern title"),
     p \in NestedChoices("displayName", "Modern publisher"),
     u \in NestedChoices("url", "https://modern")}

\* the legacy flat shape, none of it, or a null title alone
Flats ==
  {<<>>,
   [title |-> Str(<<"Legacy title">>), publisher |-> Str(<<"Legacy publisher">>),
    link |-> Str(<<"https://legacy">>)],
   [title |-> None]}

NewsItems ==
  {Merge(Field("content", c), f) : c \in {Absent, None} \cup Contents, f \in Flats}

\* a well-formed modern item, numbered to tell the items of a list apart
PlainItem(i) ==
  [content |-> [title |-> Str(<<"Headline ", ToString(i)>>),
                provider |-> [displayName |-> Str(<<"Wire">>)],
                canonicalUrl |-> [url |-> Str(<<"https://news/", ToString(i)>>)]]]

\* news lists of up to MaxNews items, one of them (the first or the last) of
\* any shape
NewsLists ==
  {<<>>} \cup
  UNION {{[i \in 1..n |-> IF i = p THEN x ELSE PlainItem(i)] :
            p \in {1, n}, x \in NewsItems} : n \in 1..MaxNews}

NewsTickers ==
  {[DefaultTicker EXCEPT !.news = Ok(List(l))] : l \in NewsLists}
  \cup {[DefaultTicker EXCEPT !.news = Ok(None)]}
  \cup {[DefaultTicker EXCEPT !.news = Ok(List(<<PlainItem(1)>>)),
                              !.dumps = Raise(m)] : m \in ProviderErrors}
  \cup FailingTickers("news")

\* news[:5]
NewsHeadItems(items) == Head_(items, NewsHead)

\* item.get("content", {}) is None for some key the code chains .get on
NoneDotGet(item) ==
  LET content == DictGet(item, "content", <<>>)
  IN \/ content = None
     \/ DictGet(content, "provider", <<>>) = None
     \/ DictGet(content, "canonicalUrl", <<>>) = None

\* item.get("content", {}).get("title", item.get("title", "No title"))
ArticleTitle(item) ==
  DictGet(DictGet(item, "content", <<>>), "title",
          DictGet(item, "title", Str(<<"No title">>)))

\* item.get("content", {}).get("provider", {}).get("displayName", "Unknown")
ArticlePublisher(item) ==
  DictGet(DictGet(DictGet(item, "content", <<>>), "provider", <<>>),
          "displayName", Str(<<"Unknown">>))

\* item.get("content", {}).get("canonicalUrl", {}).get("url", "")
ArticleLink(item) ==
  DictGet(DictGet(DictGet(item, "content", <<>>), "canonicalUrl", <<>>),
          "url", Str(<<>>))

\* the dict appended to articles
Article(item) ==
  [title |-> ArticleTitle(item), publisher |-> ArticlePublisher(item),
   link |-> ArticleLink(item)]

\* the try block of get_stock_news
StockNewsBody(symbol, tk) ==
  IF tk.ctor.raised THEN Raised(tk.ctor.msg)
  ELSE IF tk.news.raised THEN Raised(tk.news.msg)
  ELSE IF tk.news.val = None \/ tk.news.val.items = <<>>
  THEN Returned(ReturnStr(<<"No news found for ">> \o symbol))
  ELSE LET items == NewsHeadItems(tk.news.val.items)
       IN IF \E i \in 1..Len(items) : NoneDotGet(items[i])
          THEN Raised(<<"'NoneType' object has no attribute 'get'">>)
          ELSE IF tk.dumps.raised THEN Raised(tk.dumps.msg)
          ELSE Returned(ReturnJson([i \in 1..Len(items) |-> Article(items[i])]))

get_stock_news(symbol, tk) == Catch(StockNewsBody(symbol, tk))

\* --------------------------------------------- get_financial_statement
StatementTypes == {"income", "balance", "cashflow"}
BadStatementTypes == {"quarterly", "Income", ""}

\* the Ticker attribute read for a statement type
StatementAttr(statement_type) ==
  CASE statement_type = "income" -> "financials"
    [] statement_type = "balance" -> "balance_sheet"
    [] OTHER -> "cashflow"

\* a statement of n line items over two period ends
MkStatement(n) ==
  DataFrame("", [i \in 1..n |-> Str(<<"Line item ", ToString(i)>>)],
            [i \in 1..n |-> [c \in {Timestamp(1), Timestamp(2)} |-> Num(i * c.n)]])

StatementTickers(statement_type) ==
  {[DefaultTicker EXCEPT ![StatementAttr(statement_type)] = Ok(MkStatement(n))] :
     n \in 0..MaxRows}
  \cup {[DefaultTicker EXCEPT ![StatementAttr(statement_type)] = Ok(MkStatement(1)),
                              !.dumps = Raise(m)] : m \in ProviderErrors}
  \cup FailingTickers(StatementAttr(statement_type))

\* data.columns = data.columns.astype(str)
StringifyColumns(df) ==
  [df EXCEPT !.rows = [i \in 1..Len(df.rows) |->
     [k \in {AsStr(c) : c \in DOMAIN df.rows[i]} |->
        df.rows[i][CHOOSE c \in DOMAIN df.rows[i] : AsStr(c) = k]]]]

\* data.head(10).to_json(orient="index")
ToJsonIndex(df) ==
  LET n == Min(StmtHead, Len(df.rows))
  IN [lbl \in {df.idx[i] : i \in 1..n} |->
        df.rows[CHOOSE i \in 1..n : df.idx[i] = lbl]]

\* the try block of get_financial_statement
FinancialStatementBody(symbol, statement_type, tk) ==
  IF tk.ctor.raised THEN Raised(tk.ctor.msg)
  ELSE IF statement_type \notin StatementTypes
  THEN Returned(ReturnStr(<<"Invalid statement_type. Use: income, balance, or cashflow">>))
  ELSE LET data == tk[StatementAttr(statement_type)]
       IN IF data.raised THEN Raised(data.msg)
          ELSE IF IsEmpty(data.val)
          THEN Returned(ReturnStr(<<"No ", statement_type, " data for ">> \o symbol))
          ELSE IF tk.dumps.raised THEN Raised(tk.dumps.msg)
          ELSE Returned(ReturnJson(ToJsonIndex(StringifyColumns(data.val))))

get_financial_statement(symbol, statement_type, tk) ==
  Catch(FinancialStatementBody(symbol, statement_type, tk))

\* ------------------------------------------------------------ dispatch
\* the handler registered under a tool name, applied to a request
Handler(t, a, tk) ==
  CASE t = "get_stock_info" -> get_stock_info(a.symbol, tk)
    [] t = "get_historical_prices" ->
         get_historical_prices(a.symbol, a.period, a.interval, tk)
    [] t = "get_stock_news" -> get_stock_news(a.symbol, tk)
    [] t = "get_financial_statement" ->
         get_financial_statement(a.symbol, a.statement_type, tk)
    [] OTHER -> get_recommendations(a.symbol, tk)

\* the Ticker attribute a request reads
AttrOf(t, a) ==
  CASE t = "get_stock_info" -> "info"
    [] t = "get_historical_prices" -> "history"
    [] t = "get_stock_news" -> "news"
    [] t = "get_financial_statement" -> StatementAttr(a.statement_type)
    [] OTHER -> "recommendations"

Args(symbol, period, interval, statement_type) ==
  [symbol |-> symbol, period |-> period, interval |-> interval,
   statement_type |-> statement_type]

NoArgs == Args(<<"a">>, "1mo", "1d", "income")

\* --------------------------------------------------------------- state
VARIABLES
  pc,       \* "idle": waiting for a request; "returned": a handler has returned
  tool,     \* the tool invoked ("none" while idle)
  args,     \* its arguments
  yf,       \* what the provider did for that call
  result,   \* what the tool returned
  \* concurrent invocations, one per worker slot
  cpc,      \* where each invocation is: idle, called, constructed, fetched, returned
  creq,     \* its tool and arguments
  cyf,      \* what the provider does for it
  ticker,   \* its local variable `ticker`
  data,     \* its local variable info / hist / news / data / recs
  cres      \* what it returned

svars == <<pc, tool, args, yf, result>>
cvars == <<cpc, creq, cyf, ticker, data, cres>>
vars == <<pc, tool, args, yf, result, cpc, creq, cyf, ticker, data, cres>>

Slots == 1..MaxInv

Init ==
  /\ pc = "idle"
  /\ tool = "none"
  /\ args = NoArgs
  /\ yf = DefaultTicker
  /\ result = ReturnStr(<<>>)
  /\ cpc = [i \in Slots |-> "idle"]
  /\ creq = [i \in Slots |-> [tool |-> "none", args |-> NoArgs]]
  /\ cyf = [i \in Slots |-> DefaultTicker]
  /\ ticker = [i \in Slots |-> DefaultTicker]
  /\ data = [i \in Slots |-> Ok(None)]
  /\ cres = [i \in Slots |-> ReturnStr(<<>>)]

\* the dispatcher invokes get_stock_info
GetStockInfo ==
  /\ pc = "idle"
  /\ \E symbol \in Symbols, tk \in InfoTickers :
       /\ tool' = "get_stock_info"
       /\ args' = Args(symbol, "1mo", "1d", "income")
       /\ yf' = tk
       /\ result' = get_stock_info(symbol, tk)
  /\ pc' = "returned"
  /\ UNCHANGED cvars

\* the dispatcher invokes get_historical_prices
GetHistoricalPrices ==
  /\ pc = "idle"
  /\ \E symbol \in Symbols, pi \in PeriodIntervals :
       \E tk \in HistTickers(pi[2]) :
         /\ tool' = "get_historical_prices"
         /\ args' = Args(symbol, pi[1], pi[2], "income")
         /\ yf' = tk
         /\ result' = get_historical_prices(symbol, pi[1], pi[2], tk)
  /\ pc' = "returned"
  /\ UNCHANGED cvars

\* the dispatcher invokes get_stock_news
GetStockNews ==
  /\ pc = "idle"
  /\ \E symbol \in Symbols, tk \in NewsTickers :
       /\ tool' = "get_stock_news"
       /\ args' = Args(symbol, "1mo", "1d", "income")
       /\ yf' = tk
       /\ result' = get_stock_news(symbol, tk)
  /\ pc' = "returned"
  /\ UNCHANGED cvars

\* the dispatcher invokes get_financial_statement
GetFinancialStatement ==
  /\ pc = "idle"
  /\ \E symbol \in Symbols, st \in StatementTypes \cup BadStatementTypes :
       \E tk \in StatementTickers(st) :
         /\ tool' = "get_financial_statement"
         /\ args' = Args(symbol, "1mo", "1d", st)
         /\ yf' = tk
         /\ result' = get_financial_statement(symbol, st, tk)
  /\ pc' = "returned"
  /\ UNCHANGED cvars

\* the dispatcher invokes get_recommendations
GetRecommendations ==
  /\ pc = "idle"
  /\ \E symbol \in Symbols, tk \in RecsTickers :
       /\ tool' = "get_recommendations"
       /\ args' = Args(symbol, "1mo", "1d", "income")
       /\ yf' = tk
       /\ result' = get_recommendations(symbol, tk)
  /\ pc' = "returned"
  /\ UNCHANGED cvars

\* the dispatcher sends the string back and waits for the next request
Respond ==
  /\ pc = "returned"
  /\ pc' = "idle"
  /\ tool' = "none"
  /\ args' = NoArgs
  /\ yf' = DefaultTicker
  /\ result' = ReturnStr(<<>>)
  /\ UNCHANGED cvars

Next ==
  \/ GetStockInfo
  \/ GetHistoricalPrices
  \/ GetStockNews
  \/ GetFinancialStatement
  \/ GetRecommendations
  \/ Respond

Spec == Init /\ [][Next]_vars

\* ---------------------------------------------- concurrent invocations
\* the requests and provider behaviours the concurrent runs draw from
ConcCalls ==
  {<<"get_stock_info", Args(sym, "1mo", "1d", "income"), tk>> :
     sym \in {<<"a">>},
     tk \in {[DefaultTicker EXCEPT !.info =
                Ok(MkInfo(<<{}, {}>>, cp, Num(7), Str(<<"x">>)))] :
               cp \in {None, Num(5)}}
            \cup {[DefaultTicker EXCEPT !.ctor = Raise(<<"HTTPError 404">>)]}}
  \cup {<<"get_historical_prices", Args(<<"A">>, "1mo", iv, "income"),
          [DefaultTicker EXCEPT !.history = Ok(MkHist(HistIndexName(iv), 2, FALSE))]>> :
          iv \in {"1d", "1m"}}
  \cup {<<"get_stock_news", Args(<<"a">>, "1mo", "1d", "income"),
          [DefaultTicker EXCEPT !.news = n]>> :
          n \in {Ok(List(<<PlainItem(1)>>)), Raise(<<"Connection refused">>)}}
  \cup {<<"get_financial_statement", Args(<<"a">>, "1mo", "1d", st),
          [DefaultTicker EXCEPT !.financials = Ok(MkStatement(n))]>> :
          st \in {"income", "quarterly"}, n \in {0, 2}}
  \cup {<<"get_recommendations", Args(<<"a">>, "1mo", "1d", "income"),
          [DefaultTicker EXCEPT !.recommendations = Ok(r)]>> :
          r \in {None, MkRecs("trend", 2)}}

\* a module-level `ticker`: binding it in one invocation rebinds it in all
BindGlobal(locals, i, v) == [j \in DOMAIN locals |-> v]

\* an assignment to a local variable of invocation i
BindLocal(locals, i, v) == [locals EXCEPT ![i] = v]

\* a request arrives and a worker starts its handler
Invoke(i) ==
  /\ cpc[i] = "idle"
  /\ \E c \in ConcCalls :
       /\ creq' = [creq EXCEPT ![i] = [tool |-> c[1], args |-> c[2]]]
       /\ cyf' = [cyf EXCEPT ![i] = c[3]]
  /\ cpc' = [cpc EXCEPT ![i] = "called"]
  /\ UNCHANGED <<ticker, data, cres>>

\* ticker = yf.Ticker(symbol)
Construct(i) ==
  /\ cpc[i] = "called"
  /\ IF cyf[i].ctor.raised
     THEN /\ cres' = [cres EXCEPT ![i] = Catch(Raised(cyf[i].ctor.msg))]
          /\ cpc' = [cpc EXCEPT ![i] = "returned"]
          /\ UNCHANGED ticker
     ELSE /\ ticker' = BindLocal(ticker, i, cyf[i])
          /\ cpc' = [cpc EXCEPT ![i] = "constructed"]
          /\ UNCHANGED cres
  /\ UNCHANGED <<creq, cyf, data>>

\* info = ticker.info, hist = ticker.history(...), news = ticker.news,
\* data = ticker.financials / .balance_sheet / .cashflow, recs = ticker.recommendations
\* (get_financial_statement returns here, reading nothing, when statement_type
\* is none of the three)
Fetch(i) ==
  /\ cpc[i] = "constructed"
  /\ IF /\ creq[i].tool = "get_financial_statement"
        /\ creq[i].args.statement_type \notin StatementTypes
     THEN /\ cres' = [cres EXCEPT ![i] =
               ReturnStr(<<"Invalid statement_type. Use: income, balance, or cashflow">>)]
          /\ cpc' = [cpc EXCEPT ![i] = "returned"]
          /\ UNCHANGED data
     ELSE /\ data' = BindLocal(data, i, ticker[i][AttrOf(creq[i].tool, creq[i].args)])
          /\ cpc' = [cpc EXCEPT ![i] = "fetched"]
          /\ UNCHANGED cres
  /\ UNCHANGED <<creq, cyf, ticker>>

\* the rest of the handler, on its locals: reshape, serialise, return
Reshape(i) ==
  /\ cpc[i] = "fetched"
  /\ cres' = [cres EXCEPT ![i] =
       Handler(creq[i].tool, creq[i].args,
               [ticker[i] EXCEPT ![AttrOf(creq[i].tool, creq[i].args)] = data[i]])]
  /\ cpc' = [cpc EXCEPT ![i] = "returned"]
  /\ UNCHANGED <<creq, cyf, ticker, data>>

\* the dispatcher sends the string back; the worker is free again
ConcRespond(i) ==
  /\ cpc[i] = "returned"
  /\ cpc' = [cpc EXCEPT ![i] = "idle"]
  /\ creq' = [creq EXCEPT ![i] = [tool |-> "none", args |-> NoArgs]]
  /\ cyf' = [cyf EXCEPT ![i] = DefaultTicker]
  /\ ticker' = [ticker EXCEPT ![i] = DefaultTicker]
  /\ data' = [data EXCEPT ![i] = Ok(None)]
  /\ cres' = [cres EXCEPT ![i] = ReturnStr(<<>>)]

ConcNext ==
  \/ \E i \in Slots : Invoke(i) /\ UNCHANGED svars
  \/ \E i \in Slots : Construct(i) /\ UNCHANGED svars
  \/ \E i \in Slots : Fetch(i) /\ UNCHANGED svars
  \/ \E i \in Slots : Reshape(i) /\ UNCHANGED svars
  \/ \E i \in Slots : ConcRespond(i) /\ UNCHANGED svars

ConcSpec == Init /\ [][ConcNext]_vars

\* -------------------------------------------------------------- claims
Returned_(t) == pc = "returned" /\ tool = t

\* the string begins with "Error: "
IsErrorString(r) == r.kind = "str" /\ r.text # <<>> /\ r.text[1] = "Error: "

\* the call reads an attribute of the Ticker (get_financial_statement with an
\* unknown statement_type reads none)
ReadsData ==
  ~(tool = "get_financial_statement" /\ args.statement_type \notin StatementTypes)

\* the provider raised while the Ticker was built or while the attribute the
\* tool reads was read
ProviderRaised ==
  \/ yf.ctor.raised
  \/ ReadsData /\ yf[AttrOf(tool, args)].raised

\* the provider raised while the reshaped data was serialised (the provider
\* behaviours that do so return data that is not empty)
SerialiserRaised ==
  ~ProviderRaised /\ ReadsData /\ yf.dumps.raised

\* the provider built the Ticker, returned the attribute and serialised the
\* reshaped value without raising
ProviderOk ==
  /\ ~yf.ctor.raised
  /\ ~yf[AttrOf(tool, args)].raised
  /\ ~yf.dumps.raised

\* C1: in each of the five tools a provider exception at any step (building
\* the Ticker, reading the data, serialising it) ends as a returned string
\* beginning with "Error: "; no call ends with a raise crossing the boundary.
C1_ProviderRaiseIsErrorString ==
  pc = "returned" =>
    /\ result.kind # "fault"
    /\ ProviderRaised => IsErrorString(result)
    /\ SerialiserRaised => IsErrorString(result)

C1_Witness ==
  /\ Returned_("get_recommendations")
  /\ yf.recommendations.raised
  /\ result = ReturnStr(<<"Error: ", "Connection refused">>)

\* C2: get_financial_statement with a statement_type outside income, balance,
\* cashflow returns exactly the usage string, whatever the symbol and
\* whatever the provider does.
C2_InvalidStatementTypeIsUsageString ==
  (Returned_("get_financial_statement") /\ args.statement_type \notin StatementTypes)
    => result = ReturnStr(<<"Invalid statement_type. Use: income, balance, or cashflow">>)

\* C3: for every period and interval, a non-empty price table gives a JSON
\* array whose rows each carry a string Date, whatever the provider names the
\* table's index.
C3_NonEmptyHistoryIsJson ==
  (Returned_("get_historical_prices") /\ ProviderOk /\ ~IsEmpty(yf.history.val))
    => /\ result.kind = "json"
       /\ \A j \in 1..Len(result.json) :
            "Date" \in DOMAIN result.json[j] /\ result.json[j]["Date"].t = "str"

\* the day of the month of an ISO date string
DayOf(v) == CHOOSE d \in 1..Len(IsoDates) : IsoDates[d] = v.s[1]

\* C4: a JSON array from get_historical_prices for a table of n rows in
\* chronological order is the last min(20, n) rows in their order: at most 20
\* rows, dates non-decreasing.
C4_HistoryIsLastTwentyRows ==
  (Returned_("get_historical_prices") /\ result.kind = "json") =>
    LET n == Len(yf.history.val.rows)
        k == Min(HistTail, n)
        out == result.json
    IN /\ Len(out) = k
       /\ Len(out) <= HistTail
       /\ \A j \in 1..k :
            /\ out[j]["Close"] = yf.history.val.rows[n - k + j]["Close"]
            /\ out[j]["Date"] = Str(<<IsoDates[yf.history.val.idx[n - k + j].n]>>)
       /\ \A j \in 1..(k - 1) : DayOf(out[j]["Date"]) <= DayOf(out[j + 1]["Date"])

C4_Witness ==
  /\ Returned_("get_historical_prices")
  /\ result.kind = "json"
  /\ Len(yf.history.val.rows) > HistTail
  /\ Len(result.json) = HistTail
  /\ \E j \in 1..(HistTail - 1) : result.json[j]["Date"] = result.json[j + 1]["Date"]

\* C5: a JSON array from get_stock_news has at most 5 items, each with a
\* non-null string title, publisher and link, whatever the shape of the
\* provider's items.
C5_NewsFieldsAreStrings ==
  (Returned_("get_stock_news") /\ result.kind = "json") =>
    /\ Len(result.json) <= NewsHead
    /\ \A j \in 1..Len(result.json) :
         /\ result.json[j].title.t = "str"
         /\ result.json[j].publisher.t = "str"
         /\ result.json[j].link.t = "str"

\* C6: when the provider returns an info mapping, get_stock_info returns JSON
\* whose symbol is the input upper-cased.
C6_InfoSymbolUpperCased ==
  (Returned_("get_stock_info") /\ ProviderOk) =>
    /\ result.kind = "json"
    /\ result.json["symbol"] = Str(Upper(args.symbol))

\* C7: concurrent invocations share nothing: whatever the interleaving, what
\* an invocation returns is what its handler returns run alone on its own
\* arguments and the provider's response to it.
C7_InvocationsIndependent ==
  \A i \in Slots :
    cpc[i] = "returned" => cres[i] = Handler(creq[i].tool, creq[i].args, cyf[i])

C7_Witness ==
  \E i, j \in Slots :
    /\ i # j
    /\ cpc[i] = "returned"
    /\ cpc[j] = "fetched"
    /\ creq[i].tool = "get_stock_info"
    /\ creq[j].tool = "get_stock_info"
    /\ cyf[i] # cyf[j]
    /\ cres[i].kind = "json"

\* the table has a Date once its index is a column
HasDate(df) == df.iname = "Date" \/ "Date" \in Columns(df)

\* C8: get_recommendations returns "No recommendations for {symbol}" for a
\* missing or empty table; otherwise a JSON array of the last min(10, n) rows
\* in provider order, at most 10, Date stringified if the table has one and
\* "" if not.
C8_RecommendationsLastTenRows ==
  (Returned_("get_recommendations") /\ ProviderOk) =>
    LET recs == yf.recommendations.val
    IN IF recs = None \/ IsEmpty(recs)
       THEN result = ReturnStr(<<"No recommendations for ">> \o args.symbol)
       ELSE LET n == Len(recs.rows)
                k == Min(RecsTail, n)
                out == result.json
            IN /\ result.kind = "json"
               /\ Len(out) = k
               /\ Len(out) <= RecsTail
               /\ \A j \in 1..k :
                    /\ \A c \in Columns(recs) \ {"Date"} :
                         out[j][c] = recs.rows[n - k + j][c]
                    /\ out[j]["Date"] =
                         IF HasDate(recs)
                         THEN Str(<<IsoDates[n - k + j]>>)
                         ELSE Str(<<>>)

C8_Witness ==
  /\ Returned_("get_recommendations")
  /\ result.kind = "json"
  /\ Len(yf.recommendations.val.rows) > RecsTail
  /\ Len(result.json) = RecsTail
  /\ result.json[1]["Date"] = Str(<<>>)

\* the field as the claim reads it: the modern value under content when it
\* is there, else the legacy flat value, else the placeholder
ModernElseLegacy(item, nested, inner, flat, placeholder) ==
  LET content == DictGet(item, "content", <<>>)
      holder == IF nested = "" THEN content ELSE DictGet(content, nested, <<>>)
  IN IF inner \in DOMAIN holder THEN holder[inner]
     ELSE DictGet(item, flat, Str(placeholder))

\* C9: title, publisher and link each come from the modern shape under
\* content when it is there, else from the legacy flat field, else are the
\* placeholder.
C9_NewsModernElseLegacy ==
  (Returned_("get_stock_news") /\ result.kind = "json") =>
    \A j \in 1..Len(result.json) :
      LET item == yf.news.val.items[j]
      IN /\ result.json[j].title =
              ModernElseLegacy(item, "", "title", "title", <<"No title">>)
         /\ result.json[j].publisher =
              ModernElseLegacy(item, "provider", "displayName", "publisher", <<"Unknown">>)
         /\ result.json[j].link =
              ModernElseLegacy(item, "canonicalUrl", "url", "link", <<>>)

\* the field is in the mapping and not None
Present(info, k) == k \in DOMAIN info /\ info[k] # None

\* C10: whatever fields of the info mapping are absent or None, get_stock_info
\* returns a JSON object: each omitted field null (summary ""), price the
\* currentPrice when present and the regularMarketPrice otherwise, summary at
\* most 500 characters.
C10_InfoNullSafe ==
  (Returned_("get_stock_info") /\ ProviderOk) =>
    LET info == yf.info.val
    IN /\ result.kind = "json"
       /\ \A k \in StockInfoKeys \ {"symbol", "price", "summary"} :
            result.json[k] = DictGet(info, InfoKeyOf(k), None)
       /\ result.json["price"] =
            IF Present(info, "currentPrice") THEN info["currentPrice"]
            ELSE DictGet(info, "regularMarketPrice", None)
       /\ result.json["summary"].t = "str"
       /\ ~Present(info, "longBusinessSummary") => result.json["summary"] = Str(<<>>)
       /\ Len(result.json["summary"].s) <= SummaryChars

====
